---------------------------- MODULE Spec2Model ----------------------------
(***************************************************************************)
(* Model of coffee_exports_analysis.py: the Loader (read_year_sheets), the *)
(* Normalizer (coerce_numeric, tons derivation, dropna) and the seven      *)
(* report sections of main, each writing CSV tables and chart images.      *)
(*                                                                         *)
(* Text is a sequence of one-character strings, so that lower, startswith, *)
(* replace and strip are computed character by character.  A cell of a     *)
(* table is [num |-> n], [txt |-> s], [p |-> a, q |-> b] (the quotient     *)
(* a / b) or [nan |-> TRUE] (pandas' missing value).                       *)
(***************************************************************************)
EXTENDS Integers, Sequences, FiniteSets, TLC

VARIABLES pc, workbook, df_all, csv, written, result

vars == <<pc, workbook, df_all, csv, written, result>>

-----------------------------------------------------------------------------
(* Characters and text *)

\* The characters in use, in ascending code-point order.
Alphabet ==
    << " ", "0", "1", "2", "A", "B", "C", "D", "E", "F", "G", "R", "Y", "_",
       "a", "b", "c", "d", "e", "f", "g", "l", "r", "t", "y" >>

Ord(c) == CHOOSE i \in 1..Len(Alphabet) : Alphabet[i] = c

LowerChar(c) ==
    CASE c = "A" -> "a" [] c = "B" -> "b" [] c = "C" -> "c" [] c = "D" -> "d"
      [] c = "E" -> "e" [] c = "F" -> "f" [] c = "G" -> "g" [] c = "R" -> "r"
      [] c = "Y" -> "y" [] OTHER -> c

\* str.lower()
Lower(s) == [i \in 1..Len(s) |-> LowerChar(s[i])]

\* str.startswith(p)
StartsWith(s, p) == Len(s) >= Len(p) /\ SubSeq(s, 1, Len(p)) = p

RECURSIVE Replace(_, _, _)
\* str.replace(old, new): every non-overlapping occurrence, left to right.
Replace(s, old, new) ==
    IF s = <<>> THEN <<>>
    ELSE IF StartsWith(s, old)
         THEN new \o Replace(SubSeq(s, Len(old) + 1, Len(s)), old, new)
         ELSE <<s[1]>> \o Replace(Tail(s), old, new)

RECURSIVE LStrip(_)
LStrip(s) == IF s # <<>> /\ s[1] = " " THEN LStrip(Tail(s)) ELSE s

RECURSIVE RStrip(_)
RStrip(s) ==
    IF s # <<>> /\ s[Len(s)] = " " THEN RStrip(SubSeq(s, 1, Len(s) - 1)) ELSE s

\* str.strip()
Strip(s) == RStrip(LStrip(s))

RECURSIVE StrLess(_, _)
\* Python's < on str: lexicographic by code point.
StrLess(a, b) ==
    IF b = <<>> THEN FALSE
    ELSE IF a = <<>> THEN TRUE
    ELSE IF a[1] = b[1] THEN StrLess(Tail(a), Tail(b))
    ELSE Ord(a[1]) < Ord(b[1])

\* str(x) of a Year label: the label is already text.
Str(x) == x

-----------------------------------------------------------------------------
(* Cells *)

NaN == [nan |-> TRUE]
Num(n) == [num |-> n]
Txt(s) == [txt |-> s]

IsNaN(c) == "nan" \in DOMAIN c
IsNum(c) == "num" \in DOMAIN c
IsTxt(c) == "txt" \in DOMAIN c

COL_YEAR == "Year"
COL_VOLUME == "Trade volume"
COL_VALUE == "Trade value"
COL_TONS == "Trade volume (t)"
COL_COUNTRY == "Country of destination"
COL_EXPORTER == "Exporter"
COL_IMPORTER == "Importer"
COL_BEAN == "Coffee bean"
COL_MUNI == "Municipality of export"
COL_PCT == "Porcentaje"

OptionalColumns == {COL_COUNTRY, COL_EXPORTER, COL_IMPORTER, COL_BEAN, COL_MUNI}


-----------------------------------------------------------------------------
(* Tables: [columns |-> set of column names, rows |-> sequence of rows],   *)
(* a row being a function from the table's columns to cells.               *)

RECURSIVE SeqToSet(_)
SeqToSet(s) == IF s = <<>> THEN {} ELSE {s[1]} \cup SeqToSet(Tail(s))

RECURSIVE Flatten(_)
Flatten(ss) == IF ss = <<>> THEN <<>> ELSE ss[1] \o Flatten(Tail(ss))

\* The cell of row r in column c of a table that has more columns than r.
CellOr(r, c) == IF c \in DOMAIN r THEN r[c] ELSE NaN

\* pd.concat(frames, ignore_index=True): the rows of all frames in order,
\* over the union of their columns, a cell no frame gives being missing.
Concat(frames) ==
    LET cols == UNION {frames[i].columns : i \in 1..Len(frames)}
        widen(f) == [i \in 1..Len(f.rows) |-> [c \in cols |-> CellOr(f.rows[i], c)]]
    IN  [columns |-> cols,
         rows |-> Flatten([i \in 1..Len(frames) |-> widen(frames[i])])]

-----------------------------------------------------------------------------
(* Loader *)

YearPrefix == <<"Y", "e", "a", "r", " ">>
YearWord == <<"y", "e", "a", "r">>

RECURSIVE Contains(_, _)
Contains(s, w) == s # <<>> /\ (StartsWith(s, w) \/ Contains(Tail(s), w))

\* The selection written with `in` for startswith.
IsYearSheet_Anywhere(name) == Contains(Lower(name), YearWord)

\* Line 36: the sheets the Loader selects.
IsYearSheet(name) == StartsWith(Lower(name), YearWord)

\* Line 41: year_label = sheet.replace("Year ", "").strip()
YearLabel(name) == Strip(Replace(name, YearPrefix, <<>>))

\* Lines 39-43: one sheet read verbatim, its Year column set to the label.
ReadSheet(sh) ==
    LET cols == sh.columns \cup {COL_YEAR}
    IN  [columns |-> cols,
         rows |-> [i \in 1..Len(sh.rows) |->
                     [c \in cols |-> IF c = COL_YEAR THEN Txt(YearLabel(sh.name))
                                     ELSE sh.rows[i][c]]]]

year_sheets(wb) == SelectSeq(wb, LAMBDA sh : IsYearSheet(sh.name))

\* Lines 33-47: [raised |-> TRUE] for the ValueError of line 45, else the
\* combined table.
read_year_sheets(wb) ==
    LET frames == [i \in 1..Len(year_sheets(wb)) |-> ReadSheet(year_sheets(wb)[i])]
    IN  IF frames = <<>>
        THEN [raised |-> TRUE, df |-> [columns |-> {}, rows |-> <<>>]]
        ELSE [raised |-> FALSE, df |-> Concat(frames)]

-----------------------------------------------------------------------------
(* Normalizer *)

KG_PER_TON == 1000

IsDigit(c) == c \in {"0", "1", "2"}
DigitVal(c) == CASE c = "0" -> 0 [] c = "1" -> 1 [] c = "2" -> 2

RECURSIVE ParseNat(_, _)
ParseNat(s, acc) ==
    IF s = <<>> THEN acc ELSE ParseNat(Tail(s), 10 * acc + DigitVal(s[1]))

\* pd.to_numeric(x, errors="coerce") of one cell: a number stays, text that
\* reads as a number becomes it, anything else becomes missing.
ToNumeric(c) ==
    IF IsNum(c) THEN c
    ELSE IF IsTxt(c) /\ c.txt # <<>> /\ \A i \in 1..Len(c.txt) : IsDigit(c.txt[i])
         THEN Num(ParseNat(c.txt, 0))
         ELSE NaN

MapColumn(df, col, F(_)) ==
    [columns |-> df.columns,
     rows |-> [i \in 1..Len(df.rows) |->
                 [c \in df.columns |-> IF c = col THEN F(df.rows[i][c])
                                       ELSE df.rows[i][c]]]]

RECURSIVE coerce_numeric(_, _)
\* Lines 49-54: cols is the sequence of column names to coerce.
coerce_numeric(df, cols) ==
    IF cols = <<>> THEN df
    ELSE coerce_numeric(IF cols[1] \in df.columns
                        THEN MapColumn(df, cols[1], ToNumeric) ELSE df,
                        Tail(cols))

\* x / 1000.0 of one cell (a missing value stays missing).
ToTons(c) == IF IsNum(c) THEN [p |-> c.num, q |-> KG_PER_TON] ELSE NaN

\* Line 105: df_all["Trade volume (t)"] = df_all["Trade volume"] / 1000.0
AddTons(df) ==
    [columns |-> df.columns \cup {COL_TONS},
     rows |-> [i \in 1..Len(df.rows) |->
                 [c \in df.columns \cup {COL_TONS} |->
                     IF c = COL_TONS THEN ToTons(df.rows[i][COL_VOLUME])
                     ELSE df.rows[i][c]]]]

\* Line 108: df_all.dropna(subset=["Trade volume"])
DropNaVolume(df) ==
    [columns |-> df.columns,
     rows |-> SelectSeq(df.rows, LAMBDA r : ~IsNaN(r[COL_VOLUME]))]

\* The rows dropped before the coercion that makes their volume missing.
Normalize_DropBeforeCoerce(df) ==
    AddTons(coerce_numeric(DropNaVolume(df), <<COL_VOLUME, COL_VALUE>>))

\* Lines 102-108 of main.
Normalize(df) ==
    DropNaVolume(AddTons(coerce_numeric(df, <<COL_VOLUME, COL_VALUE>>)))

-----------------------------------------------------------------------------
(* Aggregator *)

\* .count() written for .sum(): the number of rows with a volume.
SumVolume_Count(rows) == Len(SelectSeq(rows, LAMBDA r : IsNum(r[COL_VOLUME])))

RECURSIVE SumVolume(_)
\* Series.sum() of the Trade volume column: missing values are skipped.
SumVolume(rows) ==
    IF rows = <<>> THEN 0
    ELSE (IF IsNum(rows[1][COL_VOLUME]) THEN rows[1][COL_VOLUME].num ELSE 0)
         + SumVolume(Tail(rows))

\* The group key of a row: its cells in the key columns.
KeyOf(r, keys) == [i \in 1..Len(keys) |-> r[keys[i]]]

HasKey(r, keys) == \A i \in 1..Len(keys) : ~IsNaN(r[keys[i]])

RECURSIVE KeyLess(_, _)
\* Ascending order of group keys: column by column, text by code point.
KeyLess(a, b) ==
    IF a = <<>> THEN FALSE
    ELSE IF a[1] = b[1] THEN KeyLess(Tail(a), Tail(b))
    ELSE StrLess(a[1].txt, b[1].txt)

RECURSIVE SortKeys(_)
\* The keys of a set in ascending order.
SortKeys(K) ==
    IF K = {} THEN <<>>
    ELSE LET m == CHOOSE k \in K : \A o \in K \ {k} : KeyLess(k, o)
         IN  <<m>> \o SortKeys(K \ {m})

\* df.groupby(keys, as_index=False)["Trade volume"].sum(): one row per
\* distinct key, in ascending key order; a row with a missing key cell
\* belongs to no group.
GroupSum(df, keys) ==
    LET rows == SelectSeq(df.rows, LAMBDA r : HasKey(r, keys))
        K == {KeyOf(rows[i], keys) : i \in 1..Len(rows)}
        order == SortKeys(K)
        cols == SeqToSet(keys) \cup {COL_VOLUME}
        idx(c) == CHOOSE i \in 1..Len(keys) : keys[i] = c
        group(k) == SelectSeq(rows, LAMBDA r : KeyOf(r, keys) = k)
    IN  [columns |-> cols,
         rows |-> [j \in 1..Len(order) |->
                     [c \in cols |-> IF c = COL_VOLUME
                                     THEN Num(SumVolume(group(order[j])))
                                     ELSE order[j][idx(c)]]]]

Volume(r) == r[COL_VOLUME].num

\* Whether row a sorts strictly before row b: by the text of column key
\* ascending and then, when byVolume, by Trade volume descending.
RowBefore(a, b, key, byVolume) ==
    \/ StrLess(a[key].txt, b[key].txt)
    \/ byVolume /\ a[key] = b[key] /\ Volume(a) > Volume(b)

RECURSIVE InsertRow_Unstable(_, _, _, _)
\* x put before the rows it compares equal to: an unstable sort.
InsertRow_Unstable(sorted, x, key, byVolume) ==
    IF sorted = <<>> THEN <<x>>
    ELSE IF ~RowBefore(sorted[1], x, key, byVolume) THEN <<x>> \o sorted
    ELSE <<sorted[1]>> \o InsertRow_Unstable(Tail(sorted), x, key, byVolume)

RECURSIVE InsertRow(_, _, _, _)
\* x put after every row of the sorted sequence that it does not strictly
\* precede: rows that compare equal keep the order they arrived in.
InsertRow(sorted, x, key, byVolume) ==
    IF sorted = <<>> THEN <<x>>
    ELSE IF RowBefore(x, sorted[1], key, byVolume) THEN <<x>> \o sorted
    ELSE <<sorted[1]>> \o InsertRow(Tail(sorted), x, key, byVolume)

RECURSIVE StableSortRows(_, _, _, _)
\* A stable sort of rows: StableSortRows(rows, <<>>, key, byVolume).
StableSortRows(rows, acc, key, byVolume) ==
    IF rows = <<>> THEN acc
    ELSE StableSortRows(Tail(rows), InsertRow(acc, rows[1], key, byVolume),
                        key, byVolume)

\* Line 119: .sort_values("Year")
SortByYear(rows) == StableSortRows(rows, <<>>, COL_YEAR, FALSE)

\* Lines 180, 207, 248, 291: .sort_values([key, "Trade volume"],
\* ascending=[True, False]).  A sort on several columns is pandas' lexsort,
\* which is stable.
SortKeyThenVolumeDesc(rows, key) == StableSortRows(rows, <<>>, key, TRUE)

RECURSIVE InsertText(_, _)
InsertText(sorted, x) ==
    IF sorted = <<>> THEN <<x>>
    ELSE IF StrLess(Str(x), Str(sorted[1])) THEN <<x>> \o sorted
    ELSE <<sorted[1]>> \o InsertText(Tail(sorted), x)

RECURSIVE SortedByStr(_, _)
\* sorted(values, key=lambda x: str(x)): SortedByStr(values, <<>>).
SortedByStr(vals, acc) ==
    IF vals = <<>> THEN acc ELSE SortedByStr(Tail(vals), InsertText(acc, vals[1]))

RECURSIVE DescOrdersOf(_, _)
DescOrdersOf(rows, I) ==
    IF I = {} THEN {<<>>}
    ELSE UNION {{<<rows[i]>> \o o : o \in DescOrdersOf(rows, I \ {i})} :
                  i \in {i \in I : \A j \in I : Volume(rows[j]) <= Volume(rows[i])}}

\* Lines 139, 159, 231, 273: .sort_values("Trade volume", ascending=False).
\* A sort on one column is numpy's quicksort, which is not stable: every
\* order of the rows that is non-increasing in Trade volume is an outcome.
VolumeDescOrders(rows) == DescOrdersOf(rows, 1..Len(rows))

\* DataFrame.head(n)
HeadRows(rows, n) == SubSeq(rows, 1, IF Len(rows) < n THEN Len(rows) ELSE n)

\* groupby("Year").head(n): the first n rows of each Year, in table order.
HeadPerYear(rows, n) ==
    LET before(i) == {j \in 1..(i - 1) : rows[j][COL_YEAR] = rows[i][COL_YEAR]}
        keep == {i \in 1..Len(rows) : Cardinality(before(i)) < n}
        RECURSIVE pick(_)
        pick(i) == IF i > Len(rows) THEN <<>>
                   ELSE (IF i \in keep THEN <<rows[i]>> ELSE <<>>) \o pick(i + 1)
    IN  pick(1)

\* x / total * 100.0 of one group sum; 0 / 0 is missing.
Percent(x, total) == IF total = 0 THEN NaN ELSE [p |-> x * 100, q |-> total]

\* Each group sum over the total of all retained rows, keyed or not.
AddPorcentaje_OverAllRows(tbl) ==
    LET total == SumVolume(df_all.rows)
        cols == tbl.columns \cup {COL_PCT}
    IN  [columns |-> cols,
         rows |-> [i \in 1..Len(tbl.rows) |->
                     [c \in cols |-> IF c = COL_PCT
                                     THEN Percent(Volume(tbl.rows[i]), total)
                                     ELSE tbl.rows[i][c]]]]

\* Lines 141, 161, 233: the Porcentaje column, each group sum over the sum
\* of the table's group sums.
AddPorcentaje(tbl) ==
    LET total == SumVolume(tbl.rows)
        cols == tbl.columns \cup {COL_PCT}
    IN  [columns |-> cols,
         rows |-> [i \in 1..Len(tbl.rows) |->
                     [c \in cols |-> IF c = COL_PCT
                                     THEN Percent(Volume(tbl.rows[i]), total)
                                     ELSE tbl.rows[i][c]]]]

TOP_IMPORTERS == 3
TOP_COUNTRIES == 3
TOP_BEANS == 1
TOP10 == 10
TOP_MUNICIPALITIES == 5

\* Lines 177-183, 204-209, 245-250: the top-n groups of each Year.
TopPerYear(df, col, n) ==
    LET g == GroupSum(df, <<COL_YEAR, col>>)
    IN  [columns |-> g.columns,
         rows |-> HeadPerYear(SortKeyThenVolumeDesc(g.rows, COL_YEAR), n)]

RECURSIVE Unique(_, _)
\* Series.unique(): the distinct values in order of first appearance.
Unique(vals, seen) ==
    IF vals = <<>> THEN <<>>
    ELSE IF vals[1] \in seen THEN Unique(Tail(vals), seen)
    ELSE <<vals[1]>> \o Unique(Tail(vals), seen \cup {vals[1]})

\* Lines 187, 211, 253: sorted(tbl["Year"].unique(), key=lambda x: str(x))
YearsSorted(tbl) ==
    SortedByStr(Unique([i \in 1..Len(tbl.rows) |-> tbl.rows[i][COL_YEAR].txt], {}), <<>>)

-----------------------------------------------------------------------------
(* Renderer / Writer: a file is its fixed stem, its dynamic label and its  *)
(* extension; the name on disk is the three joined.                        *)

File(stem, label, ext) == [stem |-> stem, label |-> label, ext |-> ext]

CsvFile(name) == File(name, <<>>, ".csv")
Image(stem) == File(stem, <<>>, ".png")

\* One figure for all the Years together.
YearImages_Combined(stem, years) == <<File(stem, <<>>, ".png")>>

\* Lines 188-198, 212-222, 254-264: one image per Year of the list.
YearImages(stem, years) == [i \in 1..Len(years) |-> File(stem, years[i], ".png")]

\* Line 306: the image of one top municipality.
MunicipalityImage(m) == File("G2_exporters_top_", Replace(m, <<" ">>, <<"_">>), ".png")

-----------------------------------------------------------------------------
(* main, one action per numbered section of the source *)

SaveCsv(name, tbl) == (name :> tbl) @@ csv

\* A section entered without its column test.
Present_Always(col) == TRUE

\* Lines 135, 155, 176, 203, 227, 269, 287: `col in df_all.columns`.
Present(col) == col \in df_all.columns

\* DataFrame.groupby raises KeyError for a key column the table lacks.
GroupByRaises(keys) == ~(SeqToSet(keys) \subseteq df_all.columns)

Skip(next) == pc' = next /\ UNCHANGED <<csv, written, result>>

Abort(exception) == pc' = "aborted" /\ result' = exception

\* Line 99: read and combine; the ValueError of read_year_sheets ends main.
ReadStep ==
    /\ pc = "read"
    /\ LET r == read_year_sheets(workbook)
       IN  IF r.raised
           THEN Abort("ValueError") /\ UNCHANGED df_all
           ELSE /\ pc' = "normalize"
                /\ df_all' = r.df
                /\ UNCHANGED result
    /\ UNCHANGED <<workbook, csv, written>>

\* Lines 102-111: coerce, derive tons, drop rows without volume, save the
\* combined table.  Line 105 raises KeyError without a Trade volume column.
NormalizeStep ==
    /\ pc = "normalize"
    /\ IF COL_VOLUME \notin df_all.columns
       THEN Abort("KeyError") /\ UNCHANGED <<df_all, csv, written>>
       ELSE /\ pc' = "A"
            /\ df_all' = Normalize(df_all)
            /\ csv' = SaveCsv("combined_all_years", df_all')
            /\ written' = Append(written, CsvFile("combined_all_years"))
            /\ UNCHANGED result
    /\ UNCHANGED workbook

\* Lines 116-130: A) volume by year.
SectionA ==
    /\ pc = "A"
    /\ LET g == GroupSum(df_all, <<COL_YEAR>>)
           per_year == [columns |-> g.columns, rows |-> SortByYear(g.rows)]
       IN  /\ csv' = SaveCsv("summary_trade_volume_by_year", per_year)
           /\ written' = written \o <<CsvFile("summary_trade_volume_by_year"),
                                      Image("A_trade_volume_by_year")>>
    /\ pc' = "B"
    /\ UNCHANGED <<workbook, df_all, result>>

\* A summary sorted by volume with its percentage column, saved with one
\* image (sections B, C and F).
PercentSummary(col, name, image, next) ==
    /\ IF ~Present(col) THEN Skip(next)
       ELSE IF GroupByRaises(<<col>>) THEN Abort("KeyError") /\ UNCHANGED <<csv, written>>
       ELSE \E sorted \in VolumeDescOrders(GroupSum(df_all, <<col>>).rows) :
              LET tbl == AddPorcentaje([columns |-> {col, COL_VOLUME}, rows |-> sorted])
              IN  /\ csv' = SaveCsv(name, tbl)
                  /\ written' = written \o <<CsvFile(name), Image(image)>>
                  /\ pc' = next
                  /\ UNCHANGED result
    /\ UNCHANGED <<workbook, df_all>>

\* A top-n-per-Year table saved with one image per Year (sections D, E, F2),
\* after the files and tables the section has already written.
TopSection(col, n, name, stem, files, tables) ==
    LET tbl == TopPerYear(df_all, col, n)
    IN  /\ csv' = (name :> tbl) @@ tables
        /\ written' = files \o <<CsvFile(name)>> \o YearImages(stem, YearsSorted(tbl))

\* Lines 135-150: B) destination countries, share of the total.
SectionB ==
    /\ pc = "B"
    /\ PercentSummary(COL_COUNTRY, "summary_trade_volume_by_destination_country",
                      "B_destination_country_pie_top10", "C")

\* Lines 155-171: C) exporters, share of the total.
SectionC ==
    /\ pc = "C"
    /\ PercentSummary(COL_EXPORTER, "summary_trade_volume_by_exporter",
                      "C_exporters_top10_barh", "D")

\* Lines 176-198: D) top 3 importers per year.
SectionD ==
    /\ pc = "D"
    /\ IF ~Present(COL_IMPORTER) THEN Skip("E")
       ELSE IF GroupByRaises(<<COL_YEAR, COL_IMPORTER>>)
       THEN Abort("KeyError") /\ UNCHANGED <<csv, written>>
       ELSE /\ TopSection(COL_IMPORTER, TOP_IMPORTERS, "top3_importers_per_year",
                          "D_top3_importers_", written, csv)
            /\ pc' = "E"
            /\ UNCHANGED result
    /\ UNCHANGED <<workbook, df_all>>

\* Lines 203-222: E) top 3 destination countries per year.
SectionE ==
    /\ pc = "E"
    /\ IF ~Present(COL_COUNTRY) THEN Skip("F")
       ELSE IF GroupByRaises(<<COL_YEAR, COL_COUNTRY>>)
       THEN Abort("KeyError") /\ UNCHANGED <<csv, written>>
       ELSE /\ TopSection(COL_COUNTRY, TOP_COUNTRIES,
                          "top3_destination_countries_per_year",
                          "E_top3_countries_", written, csv)
            /\ pc' = "F"
            /\ UNCHANGED result
    /\ UNCHANGED <<workbook, df_all>>

\* Lines 227-264: F) coffee beans, share of the total, and F2) the top bean
\* of each year.
SectionF ==
    /\ pc = "F"
    /\ IF ~Present(COL_BEAN) THEN Skip("G")
       ELSE IF GroupByRaises(<<COL_YEAR, COL_BEAN>>)
       THEN Abort("KeyError") /\ UNCHANGED <<csv, written>>
       ELSE \E sorted \in VolumeDescOrders(GroupSum(df_all, <<COL_BEAN>>).rows) :
              LET beans == AddPorcentaje([columns |-> {COL_BEAN, COL_VOLUME},
                                          rows |-> sorted])
              IN  /\ TopSection(COL_BEAN, TOP_BEANS, "top1_coffee_bean_per_year",
                                "F2_top1_bean_",
                                written \o <<CsvFile("summary_trade_volume_by_coffee_bean"),
                                             Image("F_beans_barh")>>,
                                SaveCsv("summary_trade_volume_by_coffee_bean", beans))
                  /\ pc' = "G"
                  /\ UNCHANGED result
    /\ UNCHANGED <<workbook, df_all>>

\* Line 293: top5_names = top10_muni.head(5)["Municipality of export"].tolist()
Top5Names(muniRows) ==
    LET top == HeadRows(HeadRows(muniRows, TOP10), TOP_MUNICIPALITIES)
    IN  [i \in 1..Len(top) |-> top[i][COL_MUNI].txt]

\* Lines 288-294: the (municipality, exporter) sums of the top municipalities.
TopMuniExp(df, names) ==
    LET g == GroupSum(df, <<COL_MUNI, COL_EXPORTER>>)
    IN  [columns |-> g.columns,
         rows |-> SelectSeq(SortKeyThenVolumeDesc(g.rows, COL_MUNI),
                            LAMBDA r : r[COL_MUNI].txt \in SeqToSet(names))]

\* Lines 298-307: one image per name of top5_names.
MunicipalityImages(names) == [i \in 1..Len(names) |-> MunicipalityImage(names[i])]

\* Lines 269-307: G) municipalities, and G2) exporters of the top 5.
SectionG ==
    /\ pc = "G"
    /\ IF ~Present(COL_MUNI) THEN Skip("return")
       ELSE IF GroupByRaises(<<COL_MUNI>>)
       THEN Abort("KeyError") /\ UNCHANGED <<csv, written>>
       ELSE \E sorted \in VolumeDescOrders(GroupSum(df_all, <<COL_MUNI>>).rows) :
              LET muni == [columns |-> {COL_MUNI, COL_VOLUME}, rows |-> sorted]
                  top5_names == Top5Names(sorted)
                  files == written \o <<CsvFile("summary_trade_volume_by_municipality"),
                                        Image("G_municipalities_top10_barh")>>
                  tables == SaveCsv("summary_trade_volume_by_municipality", muni)
              IN  IF ~Present(COL_EXPORTER)
                  THEN /\ csv' = tables
                       /\ written' = files
                       /\ pc' = "return"
                       /\ UNCHANGED result
                  ELSE IF GroupByRaises(<<COL_MUNI, COL_EXPORTER>>)
                  THEN /\ csv' = tables
                       /\ written' = files
                       /\ Abort("KeyError")
                  ELSE /\ csv' = ("exporters_in_top5_municipalities"
                                    :> TopMuniExp(df_all, top5_names)) @@ tables
                       /\ written' = files
                                     \o <<CsvFile("exporters_in_top5_municipalities")>>
                                     \o MunicipalityImages(top5_names)
                       /\ pc' = "return"
                       /\ UNCHANGED result
    /\ UNCHANGED <<workbook, df_all>>

\* Lines 309-310: return 0.
ReturnStep ==
    /\ pc = "return"
    /\ pc' = "done"
    /\ result' = "0"
    /\ UNCHANGED <<workbook, df_all, csv, written>>

-----------------------------------------------------------------------------
(* The workbooks main is run on *)

MaxSheets == 2
MaxSheetRows == 1
MaxCellRows == 3
MaxGroupRows == 3
MaxRankRows == 4
MaxMunicipalities == 6

Sheet(name, cols, rows) == [name |-> name, columns |-> cols, rows |-> rows]

Year20 == <<"Y", "e", "a", "r", " ", "2", "0">>
Year21 == <<"Y", "e", "a", "r", " ", "2", "1">>

SheetNames ==
    { Year20,
      <<"y", "e", "a", "r", " ", "2", "0">>,
      <<"Y", "e", "a", "r", "l", "y">>,
      <<"D", "a", "t", "a">>,
      <<"A", " ", "Y", "e", "a", "r">>,
      <<"Y", "e", "a", "r", " ", "Y", "e", "a", "r", " ", "2", "0">>,
      <<"Y", "e", "a", "r", " ", " ", "2", "1">> }

\* Sheet names of every kind, each sheet holding 0..MaxSheetRows rows whose
\* volume is the sheet's position.  Excel keeps sheet names distinct
\* whatever their case.
NameWorkbooks ==
    UNION {{[i \in 1..n |-> Sheet(names[i], {COL_VOLUME},
                                   [j \in 1..counts[i] |-> [c \in {COL_VOLUME} |-> Num(i)]])] :
              names \in {f \in [1..n -> SheetNames] :
                           \A i, j \in 1..n : i # j => Lower(f[i]) # Lower(f[j])},
              counts \in [1..n -> 0..MaxSheetRows]} : n \in 1..MaxSheets}

LabelA == <<"A">>
LabelB == <<"B">>
LabelC == <<"C">>
LabelD == <<"D">>
LabelE == <<"E">>

\* The three rows of the column workbooks, before columns are left out.
FullRow(vol, a, m) ==
    [c \in OptionalColumns \cup {COL_VOLUME} |->
        IF c = COL_VOLUME THEN Num(vol) ELSE IF c = COL_MUNI THEN Txt(m) ELSE Txt(a)]

Restrict(r, cols) == [c \in cols |-> r[c]]

ColumnSheet(name, cols, rows) ==
    Sheet(name, cols, [i \in 1..Len(rows) |-> Restrict(rows[i], cols)])

ColumnRows1 == <<FullRow(3, LabelA, <<"A", " ", "B">>), FullRow(2, LabelB, LabelC)>>
ColumnRows2 == <<FullRow(4, LabelB, LabelC)>>

\* Two year sheets, each with its own subset of the optional columns; and
\* sheets with or without the Trade volume column.
ColumnWorkbooks ==
    {<<ColumnSheet(Year21, s1 \cup {COL_VOLUME}, ColumnRows1),
       ColumnSheet(Year20, s2 \cup {COL_VOLUME}, ColumnRows2)>> :
        s1 \in SUBSET OptionalColumns, s2 \in SUBSET OptionalColumns}
    \cup
    {<<ColumnSheet(Year21, s \cup v1, ColumnRows1),
       ColumnSheet(Year20, s \cup v2, ColumnRows2)>> :
        s \in SUBSET OptionalColumns, v1 \in SUBSET {COL_VOLUME}, v2 \in SUBSET {COL_VOLUME}}

VolumeCells ==
    {Num(0), Num(2), Txt(<<"1", "2">>), Txt(<<"2", "a">>), Txt(<<>>), NaN}

\* One sheet whose Trade volume and Trade value cells are of every kind.
CellWorkbooks ==
    UNION {{<<Sheet(Year20, {COL_VOLUME, COL_VALUE},
                   [i \in 1..n |-> [c \in {COL_VOLUME, COL_VALUE} |-> cells[i]]])>> :
              cells \in [1..n -> VolumeCells]} : n \in 0..MaxCellRows}

GroupRow(v, k) ==
    [c \in {COL_VOLUME, COL_COUNTRY} |-> IF c = COL_VOLUME THEN Num(v) ELSE k]

\* Rows of two countries and of none, of volumes 0, 1 and 2.
GroupRows ==
    { GroupRow(1, Txt(LabelB)), GroupRow(0, Txt(LabelA)), GroupRow(1, Txt(LabelA)),
      GroupRow(2, Txt(LabelA)), GroupRow(1, NaN) }

\* Two year sheets sharing up to MaxGroupRows rows with a keyed column.
GroupWorkbooks ==
    UNION {{<<Sheet(Year21, {COL_VOLUME, COL_COUNTRY}, SubSeq(rows, 1, k)),
              Sheet(Year20, {COL_VOLUME, COL_COUNTRY}, SubSeq(rows, k + 1, n))>> :
              rows \in [1..n -> GroupRows], k \in 0..n} : n \in 0..MaxGroupRows}

\* Labels in descending order, so that sorting has work to do.
RankLabels == <<LabelE, LabelD, LabelC, LabelB, LabelA>>

RankColumns == {COL_IMPORTER, COL_COUNTRY, COL_BEAN}

\* One year with up to MaxRankRows groups of volumes 1..3 in one column,
\* and a second year with a single group.
RankWorkbooks ==
    UNION {{<<Sheet(Year20, {COL_VOLUME, col},
                   [i \in 1..n |-> [c \in {COL_VOLUME, col} |->
                       IF c = COL_VOLUME THEN Num(vols[i]) ELSE Txt(RankLabels[i])]]),
              Sheet(Year21, {COL_VOLUME, col},
                   <<[c \in {COL_VOLUME, col} |->
                       IF c = COL_VOLUME THEN Num(1) ELSE Txt(LabelA)]>>)>> :
              vols \in [1..n -> 1..3], col \in RankColumns} : n \in 1..MaxRankRows}

MunicipalityNames ==
    << <<"A", " ", "B">>, <<"A", "_", "B">>, LabelC, LabelD, LabelE,
       <<"F">>, <<"G">>, <<"B", " ", "A">> >>

MuniRow(m, e, v) ==
    [c \in {COL_VOLUME, COL_MUNI, COL_EXPORTER} |->
        IF c = COL_VOLUME THEN Num(v) ELSE IF c = COL_MUNI THEN Txt(m) ELSE e]

\* Up to MaxMunicipalities municipalities, the i-th of n with volume
\* n - i + 1 or one more (so that neighbours can tie), exporters
\* alternating, and a second exporter for the first municipality.
MunicipalityWorkbooks ==
    UNION {{<<Sheet(Year20, {COL_VOLUME, COL_MUNI, COL_EXPORTER},
                   [i \in 1..n |-> MuniRow(MunicipalityNames[i],
                                           IF i % 3 = 0 THEN NaN
                                           ELSE IF i % 3 = 1 THEN Txt(LabelA)
                                           ELSE Txt(LabelB),
                                           n - i + 1 + more[i])]
                   \o <<MuniRow(MunicipalityNames[1], Txt(LabelB), 1)>>)>> :
              more \in [1..n -> 0..1]} : n \in 1..MaxMunicipalities}

Year2020 == <<"Y", "e", "a", "r", " ", "2", "0", "2", "0">>
Year2021 == <<"Y", "e", "a", "r", " ", "2", "0", "2", "1">>

VolumeRow(v) == [c \in {COL_VOLUME} |-> Num(v)]

\* Sheets "Year 2020" (volumes 100, 200) and "Year 2021" (volume 300).
ScenarioWorkbook ==
    <<Sheet(Year2020, {COL_VOLUME}, <<VolumeRow(100), VolumeRow(200)>>),
      Sheet(Year2021, {COL_VOLUME}, <<VolumeRow(300)>>)>>

Workbooks ==
    {ScenarioWorkbook} \cup NameWorkbooks \cup ColumnWorkbooks \cup CellWorkbooks \cup GroupWorkbooks
    \cup RankWorkbooks \cup MunicipalityWorkbooks

\* main is about to start: os.makedirs (line 28) has made the output
\* directory, which holds no file.
Init ==
    /\ workbook \in Workbooks
    /\ pc = "read"
    /\ df_all = [columns |-> {}, rows |-> <<>>]
    /\ csv = <<>>
    /\ written = <<>>
    /\ result = "none"

Next ==
    \/ ReadStep
    \/ NormalizeStep
    \/ SectionA
    \/ SectionB
    \/ SectionC
    \/ SectionD
    \/ SectionE
    \/ SectionF
    \/ SectionG
    \/ ReturnStep

Spec == Init /\ [][Next]_vars

-----------------------------------------------------------------------------
(* Properties *)

Stages == <<"read", "normalize", "A", "B", "C", "D", "E", "F", "G", "return", "done">>

StageNo(p) == CHOOSE i \in 1..Len(Stages) : Stages[i] = p

\* main has completed the stage named p (and has not aborted).
Past(p) == pc # "aborted" /\ StageNo(pc) > StageNo(p)

RECURSIVE SumInts(_)
SumInts(xs) == IF xs = <<>> THEN 0 ELSE xs[1] + SumInts(Tail(xs))

Column(tbl, col) == [i \in 1..Len(tbl.rows) |-> tbl.rows[i][col]]

FilesWritten == SeqToSet(written)

NoYearSheet ==
    \A i \in 1..Len(workbook) : ~StartsWith(Lower(workbook[i].name), YearWord)

\* C1: when no sheet of the workbook has a name starting with "year"
\* (whatever the case), main ends in read_year_sheets' ValueError and no
\* CSV table and no image has been written.
C1_NoYearSheetAbortsWithoutOutput ==
    (NoYearSheet /\ pc # "read") =>
        /\ pc = "aborted"
        /\ result = "ValueError"
        /\ written = <<>>
        /\ DOMAIN csv = {}

C1_Witness ==
    /\ NoYearSheet
    /\ Len(workbook) = 2
    /\ Len(workbook[1].rows) > 0
    /\ pc = "aborted"
    /\ result = "ValueError"

\* The sheets whose name starts with "Year " as the docstring reads it.
YearPrefixedSheets == SelectSeq(workbook, LAMBDA sh : StartsWith(sh.name, YearPrefix))

\* C3: the unified table returned by read_year_sheets holds exactly the
\* rows of the "Year "-prefixed sheets: as many rows as they have together,
\* and their cells in order.
C3_RowsAreThoseOfYearPrefixedSheets ==
    pc = "normalize" =>
        LET expected == Flatten([i \in 1..Len(YearPrefixedSheets) |->
                           [j \in 1..Len(YearPrefixedSheets[i].rows) |->
                               YearPrefixedSheets[i].rows[j][COL_VOLUME]]])
        IN  /\ Len(df_all.rows) = Len(expected)
            /\ Column(df_all, COL_VOLUME) = expected

\* The sheet name without a leading "Year ", nothing else of it altered.
StripYearPrefix(name) ==
    IF StartsWith(name, YearPrefix) THEN SubSeq(name, Len(YearPrefix) + 1, Len(name))
    ELSE name

\* C4: each row's Year label is its sheet's name with the "Year " prefix
\* stripped and nothing else altered, and distinct selected sheets have
\* distinct labels, none of which starts with the prefix.
C4_YearLabelIsNameWithoutPrefix ==
    pc = "normalize" =>
        LET selected == year_sheets(workbook)
            filled == SelectSeq(selected, LAMBDA sh : sh.rows # <<>>)
            expected == Flatten([i \in 1..Len(selected) |->
                           [j \in 1..Len(selected[i].rows) |->
                               Txt(StripYearPrefix(selected[i].name))]])
        IN  /\ Column(df_all, COL_YEAR) = expected
            /\ Cardinality(SeqToSet(Column(df_all, COL_YEAR))) = Len(filled)
            /\ \A i \in 1..Len(df_all.rows) :
                 ~StartsWith(df_all.rows[i][COL_YEAR].txt, YearPrefix)

\* The number a raw Trade volume cell stands for, -1 when it is missing or
\* not a number.
RawVolume(c) ==
    IF IsNum(c) THEN c.num
    ELSE IF c = Txt(<<"1", "2">>) THEN 12
    ELSE -1

\* C5: after the Normalizer the table holds exactly the loaded rows whose
\* Trade volume is a number, in order, each with that number as its volume
\* and volume / 1000 as its tons; combined_all_years.csv holds that table,
\* and the by-year summary totals only those rows.
C5_NormalizerKeepsNumericVolumes ==
    Past("normalize") =>
        LET raw == Column(read_year_sheets(workbook).df, COL_VOLUME)
            kept == SelectSeq(raw, LAMBDA c : RawVolume(c) >= 0)
        IN  /\ Len(df_all.rows) = Len(kept)
            /\ \A i \in 1..Len(df_all.rows) :
                 LET r == df_all.rows[i]
                 IN  /\ IsNum(r[COL_VOLUME])
                     /\ r[COL_VOLUME].num = RawVolume(kept[i])
                     /\ DOMAIN r[COL_TONS] = {"p", "q"}
                     /\ r[COL_TONS].q # 0
                     /\ r[COL_TONS].p * 1000 = r[COL_VOLUME].num * r[COL_TONS].q
            /\ csv["combined_all_years"] = df_all
            /\ written[1] = CsvFile("combined_all_years")
            /\ Past("A") =>
                 SumInts([i \in 1..Len(csv["summary_trade_volume_by_year"].rows) |->
                            csv["summary_trade_volume_by_year"].rows[i][COL_VOLUME].num])
                 = SumInts([i \in 1..Len(kept) |-> RawVolume(kept[i])])

C5_Witness ==
    /\ Past("A")
    /\ \E i \in 1..Len(workbook[1].rows) : IsTxt(workbook[1].rows[i][COL_VOLUME])
                                           /\ RawVolume(workbook[1].rows[i][COL_VOLUME]) < 0
    /\ \E i \in 1..Len(workbook[1].rows) : workbook[1].rows[i][COL_VOLUME] = Txt(<<"1", "2">>)
    /\ \E i \in 1..Len(workbook[1].rows) : IsNaN(workbook[1].rows[i][COL_VOLUME])
    /\ Len(df_all.rows) = 1

\* The columns of the unified table: those of the selected sheets.
InTable(col) ==
    \E i \in 1..Len(workbook) :
        StartsWith(Lower(workbook[i].name), YearWord) /\ col \in workbook[i].columns

\* Each report: the columns it needs, the files it always writes and the
\* stems of the files it writes per Year or per municipality.
Reports ==
    { [need |-> {COL_COUNTRY},
       fixed |-> {CsvFile("summary_trade_volume_by_destination_country"),
                  Image("B_destination_country_pie_top10"),
                  CsvFile("top3_destination_countries_per_year")},
       stems |-> {"E_top3_countries_"}],
      [need |-> {COL_EXPORTER},
       fixed |-> {CsvFile("summary_trade_volume_by_exporter"),
                  Image("C_exporters_top10_barh")},
       stems |-> {}],
      [need |-> {COL_IMPORTER},
       fixed |-> {CsvFile("top3_importers_per_year")},
       stems |-> {"D_top3_importers_"}],
      [need |-> {COL_BEAN},
       fixed |-> {CsvFile("summary_trade_volume_by_coffee_bean"), Image("F_beans_barh"),
                  CsvFile("top1_coffee_bean_per_year")},
       stems |-> {"F2_top1_bean_"}],
      [need |-> {COL_MUNI},
       fixed |-> {CsvFile("summary_trade_volume_by_municipality"),
                  Image("G_municipalities_top10_barh")},
       stems |-> {}],
      [need |-> {COL_MUNI, COL_EXPORTER},
       fixed |-> {CsvFile("exporters_in_top5_municipalities")},
       stems |-> {"G2_exporters_top_"}] }

\* C2: whatever optional columns the unified table lacks, main (given a
\* year sheet and a Trade volume column) never aborts; when it is done it
\* has returned 0, has written no file of a report that lacks a column it
\* needs, and has written the files of every report whose columns are all
\* there (the G2 output needing both the municipality and the exporter).
C2_AbsentColumnsSkipReports ==
    (~NoYearSheet /\ InTable(COL_VOLUME)) =>
        /\ pc # "aborted"
        /\ pc = "done" =>
             /\ result = "0"
             /\ \A r \in Reports :
                  IF \A c \in r.need : InTable(c)
                  THEN /\ r.fixed \subseteq FilesWritten
                       /\ \A f \in r.fixed : f.ext = ".csv" => f.stem \in DOMAIN csv
                  ELSE /\ r.fixed \cap FilesWritten = {}
                       /\ \A f \in FilesWritten : f.stem \notin r.stems
                       /\ \A f \in r.fixed : f.stem \notin DOMAIN csv

C2_Witness ==
    /\ pc = "done"
    /\ result = "0"
    /\ InTable(COL_MUNI) /\ InTable(COL_BEAN)
    /\ ~InTable(COL_EXPORTER) /\ ~InTable(COL_IMPORTER) /\ ~InTable(COL_COUNTRY)
    /\ Image("G_municipalities_top10_barh") \in FilesWritten
    /\ CsvFile("exporters_in_top5_municipalities") \notin FilesWritten

per_year == csv["summary_trade_volume_by_year"]

\* The total volume of the retained rows of one Year.
YearTotal(y) ==
    SumInts([i \in 1..Len(df_all.rows) |->
               IF df_all.rows[i][COL_YEAR] = y THEN df_all.rows[i][COL_VOLUME].num ELSE 0])

\* C6: the by-year summary has one row per Year of the retained rows, each
\* with the total of that Year's volumes, in ascending order of Year, so
\* that it adds up to the table's total; sheets Year 2020 (100, 200) and
\* Year 2021 (300) give 2020: 300, 2021: 300.
C6_ByYearSummary ==
    Past("A") =>
        LET t == per_year.rows
            years == SeqToSet(Column(df_all, COL_YEAR))
        IN  /\ Len(t) = Cardinality(years)
            /\ SeqToSet(Column(per_year, COL_YEAR)) = years
            /\ \A i \in 1..Len(t) : t[i][COL_VOLUME] = Num(YearTotal(t[i][COL_YEAR]))
            /\ \A i, j \in 1..Len(t) :
                 i < j => StrLess(t[i][COL_YEAR].txt, t[j][COL_YEAR].txt)
            /\ SumInts([i \in 1..Len(t) |-> t[i][COL_VOLUME].num])
               = SumInts([i \in 1..Len(df_all.rows) |-> df_all.rows[i][COL_VOLUME].num])
            /\ workbook = ScenarioWorkbook =>
                 /\ Len(df_all.rows) = 3
                 /\ t = << [c \in {COL_YEAR, COL_VOLUME} |->
                              IF c = COL_YEAR THEN Txt(<<"2", "0", "2", "0">>) ELSE Num(300)],
                           [c \in {COL_YEAR, COL_VOLUME} |->
                              IF c = COL_YEAR THEN Txt(<<"2", "0", "2", "1">>) ELSE Num(300)] >>

C6_Witness ==
    /\ Past("A")
    /\ workbook = ScenarioWorkbook
    /\ Len(per_year.rows) = 2

\* The summaries with a Porcentaje column, by the column they group.
PercentTables ==
    { [name |-> "summary_trade_volume_by_destination_country", col |-> COL_COUNTRY],
      [name |-> "summary_trade_volume_by_exporter", col |-> COL_EXPORTER],
      [name |-> "summary_trade_volume_by_coffee_bean", col |-> COL_BEAN] }

RECURSIVE SumQuotients(_)
\* Series.sum() of a column of quotients, as an exact quotient: missing
\* values are skipped and the empty sum is 0.
SumQuotients(cells) ==
    IF cells = <<>> THEN [p |-> 0, q |-> 1]
    ELSE LET rest == SumQuotients(Tail(cells))
         IN  IF IsNaN(cells[1]) THEN rest
             ELSE [p |-> cells[1].p * rest.q + rest.p * cells[1].q,
                   q |-> cells[1].q * rest.q]

\* The total volume of the retained rows whose cell in column col is k.
LabelTotal(col, k) ==
    SumInts([i \in 1..Len(df_all.rows) |->
               IF df_all.rows[i][col] = k THEN df_all.rows[i][COL_VOLUME].num ELSE 0])

\* The total volume of the retained rows that have a cell in column col.
KeyedTotal(col) ==
    SumInts([i \in 1..Len(df_all.rows) |->
               IF IsNaN(df_all.rows[i][col]) THEN 0 ELSE df_all.rows[i][COL_VOLUME].num])

\* C7 as stated: the Porcentaje column of every saved summary that has one
\* sums to 100.
C7_PercentagesSumTo100 ==
    \A t \in PercentTables :
        t.name \in DOMAIN csv =>
            LET s == SumQuotients(Column(csv[t.name], COL_PCT))
            IN  s.p = 100 * s.q

\* C7 amended: in every saved summary with a Porcentaje column each row's
\* volume is its group's total and, when the grand total of the group sums
\* is not zero, its Porcentaje is that total / grand total * 100 and the
\* column sums to 100; when the grand total is zero (no group at all, or
\* only zero volumes) every Porcentaje is missing and the column sums to 0.
C7_PercentagesSumTo100UnlessTotalZero ==
    \A t \in PercentTables :
        t.name \in DOMAIN csv =>
            LET rows == csv[t.name].rows
                total == KeyedTotal(t.col)
                s == SumQuotients(Column(csv[t.name], COL_PCT))
            IN  /\ \A i \in 1..Len(rows) :
                     /\ rows[i][COL_VOLUME] = Num(LabelTotal(t.col, rows[i][t.col]))
                     /\ IF total = 0 THEN IsNaN(rows[i][COL_PCT])
                        ELSE /\ DOMAIN rows[i][COL_PCT] = {"p", "q"}
                             /\ rows[i][COL_PCT].q # 0
                             /\ rows[i][COL_PCT].p * total
                                = rows[i][COL_VOLUME].num * 100 * rows[i][COL_PCT].q
                /\ IF total = 0 THEN s.p = 0 ELSE s.p = 100 * s.q

C7_Witness ==
    /\ "summary_trade_volume_by_destination_country" \in DOMAIN csv
    /\ LET t == csv["summary_trade_volume_by_destination_country"]
       IN  /\ Len(t.rows) = 2
           /\ t.rows[1][COL_VOLUME].num > t.rows[2][COL_VOLUME].num
           /\ t.rows[2][COL_VOLUME].num > 0
           /\ SumQuotients(Column(t, COL_PCT)).p = 100 * SumQuotients(Column(t, COL_PCT)).q
    /\ \E i \in 1..Len(df_all.rows) :
         IsNaN(df_all.rows[i][COL_COUNTRY]) /\ df_all.rows[i][COL_VOLUME].num > 0

\* The top-n-per-Year tables, by the column they group and their n.
TopTables ==
    { [name |-> "top3_importers_per_year", col |-> COL_IMPORTER, n |-> 3,
       stem |-> "D_top3_importers_"],
      [name |-> "top3_destination_countries_per_year", col |-> COL_COUNTRY, n |-> 3,
       stem |-> "E_top3_countries_"],
      [name |-> "top1_coffee_bean_per_year", col |-> COL_BEAN, n |-> 1,
       stem |-> "F2_top1_bean_"] }

\* The (Year, label) groups of column col among the retained rows.
YearGroups(col) ==
    {<<df_all.rows[i][COL_YEAR], df_all.rows[i][col]>> :
        i \in {j \in 1..Len(df_all.rows) : ~IsNaN(df_all.rows[j][col])}}

\* The total volume of one (Year, label) group.
YearGroupTotal(col, g) ==
    SumInts([i \in 1..Len(df_all.rows) |->
               IF df_all.rows[i][COL_YEAR] = g[1] /\ df_all.rows[i][col] = g[2]
               THEN df_all.rows[i][COL_VOLUME].num ELSE 0])

\* C8: a saved top-n-per-Year table holds distinct groups with their
\* totals, at most n of a Year (all of them when the Year has no more);
\* within a Year the totals do not increase; no group left out has a larger
\* total than one kept for its Year; and groups of equal total stand in the
\* order they had before the sort (groupby's ascending order of label),
\* which also decides between them at the cut-off.
C8_TopNPerYear ==
    \A t \in TopTables :
        t.name \in DOMAIN csv =>
            LET rows == csv[t.name].rows
                key(i) == <<rows[i][COL_YEAR], rows[i][t.col]>>
                kept == {key(i) : i \in 1..Len(rows)}
                groups == YearGroups(t.col)
                ofYear(G, y) == {g \in G : g[1] = y}
            IN  /\ kept \subseteq groups
                /\ Cardinality(kept) = Len(rows)
                /\ \A i \in 1..Len(rows) :
                     rows[i][COL_VOLUME] = Num(YearGroupTotal(t.col, key(i)))
                /\ \A g \in groups :
                     /\ Cardinality(ofYear(kept, g[1])) <= t.n
                     /\ Cardinality(ofYear(groups, g[1])) <= t.n => g \in kept
                     /\ Cardinality(ofYear(groups, g[1])) >= t.n
                          => Cardinality(ofYear(kept, g[1])) = t.n
                /\ \A i, j \in 1..Len(rows) :
                     (i < j /\ rows[i][COL_YEAR] = rows[j][COL_YEAR]) =>
                         /\ rows[i][COL_VOLUME].num >= rows[j][COL_VOLUME].num
                         /\ rows[i][COL_VOLUME] = rows[j][COL_VOLUME]
                              => StrLess(rows[i][t.col].txt, rows[j][t.col].txt)
                /\ \A g \in groups \ kept : \A k \in ofYear(kept, g[1]) :
                     /\ YearGroupTotal(t.col, g) <= YearGroupTotal(t.col, k)
                     /\ YearGroupTotal(t.col, g) = YearGroupTotal(t.col, k)
                          => StrLess(k[2].txt, g[2].txt)

C8_Witness ==
    /\ "top3_importers_per_year" \in DOMAIN csv
    /\ LET rows == csv["top3_importers_per_year"].rows
       IN  /\ Len(rows) = 4
           /\ rows[1][COL_YEAR] = rows[3][COL_YEAR]
           /\ rows[1][COL_VOLUME].num > rows[2][COL_VOLUME].num
           /\ rows[2][COL_VOLUME] = rows[3][COL_VOLUME]
           /\ \E g \in YearGroups(COL_IMPORTER) :
                /\ g[1] = rows[3][COL_YEAR]
                /\ \A i \in 1..Len(rows) : g[2] # rows[i][COL_IMPORTER]
                /\ YearGroupTotal(COL_IMPORTER, g) = rows[3][COL_VOLUME].num

\* The labels of the files written with a stem, in the order written.
LabelsWritten(stem) ==
    LET fs == SelectSeq(written, LAMBDA f : f.stem = stem)
    IN  [i \in 1..Len(fs) |-> fs[i].label]

Ascending(labels) ==
    \A i, j \in 1..Len(labels) : i < j => StrLess(labels[i], labels[j])

\* C9 as stated: for each per-year breakdown that was computed, the images
\* written are one per distinct Year of the unified table, in ascending
\* order of the label.
C9_OneImagePerYearOfTable ==
    \A t \in TopTables :
        t.name \in DOMAIN csv =>
            /\ SeqToSet(LabelsWritten(t.stem))
               = {df_all.rows[i][COL_YEAR].txt : i \in 1..Len(df_all.rows)}
            /\ Ascending(LabelsWritten(t.stem))

\* C9 amended: for each per-year breakdown that was computed, the images
\* written are one per distinct Year that has a retained row with a value
\* in the breakdown's column, each written once and in ascending order of
\* the label, every one a .png named by its Year; a Year whose rows all
\* lack the value gets no image.
C9_OneImagePerYearWithData ==
    \A t \in TopTables :
        t.name \in DOMAIN csv =>
            /\ SeqToSet(LabelsWritten(t.stem)) = {g[1].txt : g \in YearGroups(t.col)}
            /\ Ascending(LabelsWritten(t.stem))
            /\ \A f \in FilesWritten : f.stem = t.stem => f.ext = ".png"

C9_Witness ==
    /\ pc = "done"
    /\ LabelsWritten("D_top3_importers_") = << <<"2", "0">>, <<"2", "1">> >>
    /\ LabelsWritten("F2_top1_bean_") = << <<"2", "1">> >>
    /\ Cardinality({df_all.rows[i][COL_YEAR] : i \in 1..Len(df_all.rows)}) = 2

\* The municipalities of the retained rows.
Municipalities ==
    {df_all.rows[i][COL_MUNI] :
        i \in {j \in 1..Len(df_all.rows) : ~IsNaN(df_all.rows[j][COL_MUNI])}}

\* The (municipality, exporter) groups of the retained rows, with totals.
MuniExporterGroups ==
    {[c \in {COL_MUNI, COL_EXPORTER, COL_VOLUME} |->
         IF c = COL_VOLUME
         THEN Num(SumInts([i \in 1..Len(df_all.rows) |->
                    IF df_all.rows[i][COL_MUNI] = g[1] /\ df_all.rows[i][COL_EXPORTER] = g[2]
                    THEN df_all.rows[i][COL_VOLUME].num ELSE 0]))
         ELSE IF c = COL_MUNI THEN g[1] ELSE g[2]] :
        g \in {<<df_all.rows[i][COL_MUNI], df_all.rows[i][COL_EXPORTER]>> :
                 i \in {j \in 1..Len(df_all.rows) :
                          /\ ~IsNaN(df_all.rows[j][COL_MUNI])
                          /\ ~IsNaN(df_all.rows[j][COL_EXPORTER])}}}

\* C10: with both columns there, exporters_in_top5_municipalities.csv
\* holds exactly the (municipality, exporter) sums of five municipalities
\* of largest total volume (all of them when there are fewer), and the G2
\* images are as many distinct files as there are such municipalities,
\* each named by its municipality with spaces turned into underscores.
C10_OneImagePerTopMunicipality ==
    "exporters_in_top5_municipalities" \in DOMAIN csv =>
        \E T \in SUBSET Municipalities :
            /\ Cardinality(T) = IF Cardinality(Municipalities) < 5
                                THEN Cardinality(Municipalities) ELSE 5
            /\ \A a \in T : \A b \in Municipalities \ T :
                 LabelTotal(COL_MUNI, a) >= LabelTotal(COL_MUNI, b)
            /\ SeqToSet(csv["exporters_in_top5_municipalities"].rows)
               = {g \in MuniExporterGroups : g[COL_MUNI] \in T}
            /\ SeqToSet(LabelsWritten("G2_exporters_top_"))
               = {Replace(m.txt, <<" ">>, <<"_">>) : m \in T}
            /\ Cardinality({f \in FilesWritten : f.stem = "G2_exporters_top_"})
               = Cardinality(T)

=============================================================================
